---- MODULE Spec2Model ----
(***************************************************************************)
(* Model of src-tauri/src/main.rs: the bootstrap of a desktop shell.       *)
(* main() is one builder chain: Builder::default(), two .plugin() calls,   *)
(* .setup(closure), .run(context) and .expect(msg) on run's result.        *)
(* Every launch of the executable is one process running main(); the       *)
(* platform's login-agent registry is shared by all launches.              *)
(***************************************************************************)
EXTENDS Naturals, Sequences, FiniteSets

\* Model bounds: how many times the executable is launched, and how many
\* events the event loop of one process dispatches before it must end.
MaxProcs == 2
MaxEvents == 2

Procs == 1..MaxProcs

VARIABLES proc, registry

vars == <<proc, registry>>

\* The identifier in the context that generate_context!() produces.
AppId == "shakshuka"

\* Exit statuses of a Rust process whose main panicked (unwind / abort).
PanicStatuses == {101, 134}

\* Faulty variants of the chain: the plugins swapped, .setup() left out,
\* run called again after it returned.
MainChainSwapped ==
    <<"Builder::default", "plugin(fs)", "plugin(autostart)", "setup", "run">>

MainChainNoSetup ==
    <<"Builder::default", "plugin(autostart)", "plugin(fs)", "run">>

MainChainRunTwice ==
    <<"Builder::default", "plugin(autostart)", "plugin(fs)", "setup", "run", "run">>

\* The calls of main()'s chain, in source order.  .expect() is applied to
\* the result of run when run returns.
MainChain ==
    <<"Builder::default", "plugin(autostart)", "plugin(fs)", "setup", "run">>

\* Faulty variant: the enabled-by-default flag left unset.
AutostartInitNotEnabled ==
    [name |-> "autostart", launcher |-> "LaunchAgent", enabled |-> "None"]

\* tauri_plugin_autostart::init(MacosLauncher::LaunchAgent, Some(true))
AutostartInit ==
    [name |-> "autostart", launcher |-> "LaunchAgent", enabled |-> "Some(true)"]

\* tauri_plugin_fs::init()
FsInit ==
    [name |-> "fs", launcher |-> "n/a", enabled |-> "n/a"]

\* What the setup closure sees and could change: the application.
AppOf(pr) ==
    [plugins |-> pr.builder.plugins, initialized |-> pr.initialized,
     handle |-> pr.handle]

\* Faulty variants of the closure: one fails, one alters the application.
SetupHookErr(app) ==
    [result |-> "Err", app |-> app]

SetupHookMutates(app) ==
    [result |-> "Ok", app |-> [app EXCEPT !.initialized = {}]]

\* The closure given to .setup(): |_app| { Ok(()) }
SetupHook(app) ==
    [result |-> "Ok", app |-> app]

\* Faulty variants of the result handling: the error ignored (.ok()), and
\* the cases inverted (.expect_err()).
ExpectSwallows(result) ==
    [panic |-> FALSE, diag |-> <<>>]

ExpectErr(result) ==
    IF result = "Ok"
      THEN [panic |-> TRUE, diag |-> <<"error while running tauri application", result>>]
      ELSE [panic |-> FALSE, diag |-> <<>>]

\* .expect("error while running tauri application") on run's Result.
Expect(result) ==
    IF result = "Ok"
      THEN [panic |-> FALSE, diag |-> <<>>]
      ELSE [panic |-> TRUE, diag |-> <<"error while running tauri application", result>>]

\* The plugin's effect on the login-agent registry when it is initialised
\* with enabled-by-default: one entry per application.
AutostartEnable(reg, entry) ==
    IF \E i \in 1..Len(reg) : reg[i].app = entry.app
      THEN reg
      ELSE Append(reg, entry)

NoBuilder == [exists |-> FALSE, plugins |-> <<>>, setup |-> "default"]

ProcInit ==
    [ip |-> 0, builder |-> NoBuilder, stage |-> "none",
     handle |-> "none", handles |-> 0, initialized |-> {},
     hookRuns |-> 0, setupResult |-> "none",
     runCalls |-> 0, runResult |-> "none", events |-> 0,
     terminated |-> "no", status |-> 0, diag |-> <<>>, log |-> <<>>]

Init ==
    /\ proc = [p \in Procs |-> ProcInit]
    /\ registry = <<>>

\* The next call of the chain that process p has to make.
NextCall(p) ==
    IF proc[p].ip \in 1..Len(MainChain) /\ proc[p].stage = "none"
         /\ proc[p].terminated = "no"
      THEN MainChain[proc[p].ip]
      ELSE "-"

\* The platform starts the executable: main() is entered.
Launch(p) ==
    /\ proc[p].ip = 0
    /\ proc' = [proc EXCEPT ![p].ip = 1]
    /\ UNCHANGED registry

BuilderDefault(p) ==
    /\ NextCall(p) = "Builder::default"
    /\ proc' = [proc EXCEPT ![p].ip = @ + 1,
                            ![p].builder = [NoBuilder EXCEPT !.exists = TRUE],
                            ![p].log = Append(@, "builder")]
    /\ UNCHANGED registry

PluginAutostart(p) ==
    /\ NextCall(p) = "plugin(autostart)"
    /\ proc[p].builder.exists
    /\ proc' = [proc EXCEPT ![p].ip = @ + 1,
                            ![p].builder.plugins = Append(@, AutostartInit),
                            ![p].log = Append(@, "plugin:autostart")]
    /\ UNCHANGED registry

\* Faulty variant: the filesystem plugin is not added to the builder.
PluginFsDropped(p) ==
    /\ NextCall(p) = "plugin(fs)"
    /\ proc[p].builder.exists
    /\ proc' = [proc EXCEPT ![p].ip = @ + 1,
                            ![p].log = Append(@, "plugin:fs")]
    /\ UNCHANGED registry

\* .plugin(tauri_plugin_fs::init())
PluginFs(p) ==
    /\ NextCall(p) = "plugin(fs)"
    /\ proc[p].builder.exists
    /\ proc' = [proc EXCEPT ![p].ip = @ + 1,
                            ![p].builder.plugins = Append(@, FsInit),
                            ![p].log = Append(@, "plugin:fs")]
    /\ UNCHANGED registry

\* .setup(closure): the closure is stored in the builder, not called.
BuilderSetup(p) ==
    /\ NextCall(p) = "setup"
    /\ proc[p].builder.exists
    /\ proc' = [proc EXCEPT ![p].ip = @ + 1,
                            ![p].builder.setup = "closure"]
    /\ UNCHANGED registry

\* .run(tauri::generate_context!()): the blocking call is entered.
Run(p) ==
    /\ NextCall(p) = "run"
    /\ proc[p].builder.exists
    /\ proc' = [proc EXCEPT ![p].stage = "entered",
                            ![p].runCalls = @ + 1,
                            ![p].events = 0]
    /\ UNCHANGED registry

\* run returns `result`; .expect() is applied to it, and main either
\* panics, goes on with the rest of the chain, or returns.
Returned(pr, result, panicStatus) ==
    LET e == Expect(result)
        base == [pr EXCEPT !.runResult = result, !.stage = "none",
                           !.handle = IF @ = "valid" THEN "dropped" ELSE @]
    IN  IF e.panic
          THEN [base EXCEPT !.terminated = "fatal", !.status = panicStatus,
                            !.diag = e.diag]
          ELSE IF pr.ip + 1 > Len(MainChain)
                 THEN [base EXCEPT !.ip = @ + 1, !.terminated = "clean",
                                   !.status = 0]
                 ELSE [base EXCEPT !.ip = @ + 1]

\* Inside run: the runtime and the application handle are created.
RunBuildOk(p) ==
    /\ proc[p].stage = "entered"
    /\ proc' = [proc EXCEPT ![p].stage = "built",
                            ![p].handle = "valid",
                            ![p].handles = @ + 1]
    /\ UNCHANGED registry

\* Inside run: the event loop cannot be started (no windowing subsystem).
RunBuildFail(p) ==
    /\ proc[p].stage = "entered"
    /\ \E s \in PanicStatuses :
         proc' = [proc EXCEPT ![p] = Returned(proc[p], "Err(Runtime)", s)]
    /\ UNCHANGED registry

\* Inside run: the registered plugins are initialised, in order.
InitializePlugins(p) ==
    /\ proc[p].stage = "built"
    /\ LET ps == proc[p].builder.plugins
           on == {i \in 1..Len(ps) :
                    ps[i].name = "autostart" /\ ps[i].enabled = "Some(true)"}
       IN  /\ proc' = [proc EXCEPT
                         ![p].stage = "plugins_ready",
                         ![p].initialized = {ps[i].name : i \in 1..Len(ps)}]
           /\ registry' =
                IF on = {}
                  THEN registry
                  ELSE AutostartEnable(registry,
                         [app |-> AppId,
                          launcher |-> ps[CHOOSE i \in on : TRUE].launcher])

\* Inside run: the stored setup hook is called, once.
RunSetupHook(p) ==
    /\ proc[p].stage = "plugins_ready"
    /\ IF proc[p].builder.setup = "closure"
         THEN LET r == SetupHook(AppOf(proc[p]))
                  after == [proc[p] EXCEPT
                              !.hookRuns = @ + 1,
                              !.setupResult = r.result,
                              !.builder.plugins = r.app.plugins,
                              !.initialized = r.app.initialized,
                              !.handle = r.app.handle,
                              !.log = Append(@, "setup_hook")]
              IN  IF r.result = "Ok"
                    THEN proc' = [proc EXCEPT ![p] = [after EXCEPT !.stage = "ready"]]
                    ELSE \E s \in PanicStatuses :
                           proc' = [proc EXCEPT
                                      ![p] = Returned(after, "Err(Setup)", s)]
         ELSE proc' = [proc EXCEPT ![p].stage = "ready"]
    /\ UNCHANGED registry

\* Inside run: the event loop starts.
EventLoopStart(p) ==
    /\ proc[p].stage = "ready"
    /\ proc' = [proc EXCEPT ![p].stage = "running",
                            ![p].log = Append(@, "event_loop")]
    /\ UNCHANGED registry

\* The event loop dispatches one event.
DispatchEvent(p) ==
    /\ proc[p].stage = "running"
    /\ proc[p].events < MaxEvents
    /\ proc' = [proc EXCEPT ![p].events = @ + 1]
    /\ UNCHANGED registry

\* All windows are closed or the user quits: run returns Ok(()).
EventLoopExit(p) ==
    /\ proc[p].stage = "running"
    /\ \E s \in PanicStatuses :
         proc' = [proc EXCEPT ![p] = Returned(proc[p], "Ok", s)]
    /\ UNCHANGED registry

\* The event loop fails while running: run returns Err.
EventLoopFail(p) ==
    /\ proc[p].stage = "running"
    /\ \E s \in PanicStatuses :
         proc' = [proc EXCEPT ![p] = Returned(proc[p], "Err(EventLoop)", s)]
    /\ UNCHANGED registry

Next ==
    \E p \in Procs :
       \/ Launch(p)
       \/ BuilderDefault(p)
       \/ PluginAutostart(p)
       \/ PluginFs(p)
       \/ BuilderSetup(p)
       \/ Run(p)
       \/ RunBuildOk(p)
       \/ RunBuildFail(p)
       \/ InitializePlugins(p)
       \/ RunSetupHook(p)
       \/ EventLoopStart(p)
       \/ DispatchEvent(p)
       \/ EventLoopExit(p)
       \/ EventLoopFail(p)

Spec == Init /\ [][Next]_vars


(***************************************************************************)
(* Properties                                                              *)
(***************************************************************************)

\* The three states of section 4.1, read off a process; a process that the
\* platform has not started yet is in none of them.
Phase(pr) ==
    IF pr.ip = 0 THEN "not_launched"
    ELSE IF pr.terminated # "no" THEN "terminated"
    ELSE IF pr.stage = "running" THEN "running"
    ELSE "initializing"

\* The order of initialization that section 5 states.
Canonical ==
    <<"builder", "plugin:autostart", "plugin:fs", "setup_hook", "event_loop">>

IsPrefix(s, t) ==
    /\ Len(s) <= Len(t)
    /\ \A i \in 1..Len(s) : s[i] = t[i]

PluginNames(pr) ==
    {pr.builder.plugins[i].name : i \in 1..Len(pr.builder.plugins)}

EntriesOf(app) ==
    {i \in 1..Len(registry) : registry[i].app = app}

\* C1: when run returns an error the process is, in the same step, terminated
\* fatally with a nonzero exit status and a non-empty diagnostic, and run
\* is never called a second time.
C1_FatalOnRunError ==
    \A p \in Procs :
       /\ proc[p].runResult \notin {"none", "Ok"} =>
            /\ proc[p].terminated = "fatal"
            /\ proc[p].status # 0
            /\ Len(proc[p].diag) > 0
       /\ proc[p].runCalls <= 1

C1_Witness ==
    \E p \in Procs :
       /\ proc[p].runResult = "Err(Runtime)"
       /\ proc[p].terminated = "fatal"
       /\ proc[p].runCalls = 1

\* C2: the steps of initialization happen in the order builder, autostart
\* plugin, filesystem plugin, setup hook, event loop: what has happened so
\* far is always a prefix of that order, and all of it once the loop runs.
C2_SequentialInit ==
    \A p \in Procs :
       /\ IsPrefix(proc[p].log, Canonical)
       /\ proc[p].stage = "running" => proc[p].log = Canonical
       /\ proc[p].runCalls > 0 => Len(proc[p].log) >= 3

C2_Witness ==
    \E p \in Procs : proc[p].stage = "running" /\ proc[p].log = Canonical

\* C3: when run returns success the process has exited with status 0 and
\* without a diagnostic.
C3_CleanExit ==
    \A p \in Procs :
       proc[p].runResult = "Ok" =>
          /\ proc[p].terminated = "clean"
          /\ proc[p].status = 0
          /\ proc[p].diag = <<>>

C3_Witness ==
    \E p \in Procs :
       /\ proc[p].runResult = "Ok"
       /\ proc[p].terminated = "clean"
       /\ proc[p].events > 0

\* C4: the setup hook can always be taken when it is due (it does not block),
\* and the step that runs it yields Ok and leaves the application (plugins,
\* handle) and the autostart registry as they were; running it on its own
\* result changes nothing either.
C4_SetupHookNoOp ==
    /\ [](\A p \in Procs :
            proc[p].stage = "plugins_ready" => ENABLED RunSetupHook(p))
    /\ [][\A p \in Procs :
            (proc[p].stage = "plugins_ready" /\ proc'[p].stage # "plugins_ready") =>
               /\ proc'[p].setupResult = "Ok"
               /\ proc'[p].hookRuns = proc[p].hookRuns + 1
               /\ AppOf(proc'[p]) = AppOf(proc[p])
               /\ registry' = registry
               /\ SetupHook(SetupHook(AppOf(proc[p])).app) = SetupHook(AppOf(proc[p]))
               /\ SetupHook(AppOf(proc[p])).app = AppOf(proc[p])]_vars

C4_Witness ==
    \E p \in Procs :
       /\ proc[p].hookRuns = 1
       /\ proc[p].setupResult = "Ok"
       /\ proc[p].stage = "ready"

\* C5: a process that terminated fatally did so because run returned an
\* event-loop error; the setup hook never returns an error, and no process
\* terminates before it has called run (plugin registration cannot fail).
C5_OneErrorKind ==
    \A p \in Procs :
       /\ proc[p].terminated = "fatal" =>
            proc[p].runResult \in {"Err(Runtime)", "Err(EventLoop)"}
       /\ proc[p].setupResult # "Err"
       /\ proc[p].terminated # "no" => proc[p].runCalls >= 1

C5_Witness ==
    \E p \in Procs :
       /\ proc[p].terminated = "fatal"
       /\ proc[p].runResult = "Err(EventLoop)"
       /\ proc[p].hookRuns = 1
       /\ Len(proc[p].builder.plugins) = 2

\* C6: a launched process moves only from initializing to running, from
\* initializing to terminated (fatally), and from running to terminated;
\* a terminated process never changes again.
C6_ThreeStates ==
    [][\A p \in Procs :
         LET a == Phase(proc[p])
             b == Phase(proc'[p])
         IN  /\ \/ a = b
                \/ <<a, b>> \in {<<"not_launched", "initializing">>,
                                 <<"initializing", "running">>,
                                 <<"initializing", "terminated">>,
                                 <<"running", "terminated">>}
             /\ (a = "initializing" /\ b = "terminated") =>
                   proc'[p].terminated = "fatal"
             /\ a = "terminated" => proc'[p] = proc[p]
             /\ b = "terminated" => proc'[p].stage = "none"]_vars

C6_Witness ==
    \E p \in Procs :
       /\ Phase(proc[p]) = "terminated"
       /\ proc[p].events > 0
       /\ \E q \in Procs : Phase(proc[q]) = "initializing"

\* C7: the autostart plugin is registered with the login-agent launcher and
\* enabled-by-default true; once some launch has initialised it the registry
\* holds exactly one entry for the application, however many launches follow.
C7_AutostartIdempotent ==
    /\ \A p \in Procs : \A i \in 1..Len(proc[p].builder.plugins) :
          proc[p].builder.plugins[i].name = "autostart" =>
             /\ proc[p].builder.plugins[i].launcher = "LaunchAgent"
             /\ proc[p].builder.plugins[i].enabled = "Some(true)"
    /\ Cardinality(EntriesOf(AppId)) <= 1
    /\ (\E p \in Procs : "autostart" \in proc[p].initialized) =>
          /\ Cardinality(EntriesOf(AppId)) = 1
          /\ \A i \in EntriesOf(AppId) : registry[i].launcher = "LaunchAgent"

C7_Witness ==
    \E p, q \in Procs :
       /\ p # q
       /\ "autostart" \in proc[p].initialized
       /\ "autostart" \in proc[q].initialized
       /\ Cardinality(EntriesOf(AppId)) = 1

\* C8: once the setup hook has run, and whenever the event loop is about to
\* run or running, the filesystem plugin is registered and initialised.
C8_FsAvailable ==
    \A p \in Procs :
       (proc[p].hookRuns >= 1 \/ proc[p].stage \in {"ready", "running"}) =>
          /\ \E i \in 1..Len(proc[p].builder.plugins) :
                proc[p].builder.plugins[i] = FsInit
          /\ "fs" \in proc[p].initialized

C8_Witness ==
    \E p \in Procs :
       /\ proc[p].hookRuns = 1
       /\ proc[p].stage = "running"
       /\ "fs" \in proc[p].initialized

\* C9: the setup hook runs at most once, exactly once when the event loop
\* runs, only after both plugins are registered, and before any event is
\* dispatched.
C9_SetupHookOnce ==
    \A p \in Procs :
       /\ proc[p].hookRuns <= 1
       /\ proc[p].stage = "running" => proc[p].hookRuns = 1
       /\ proc[p].hookRuns >= 1 => {"autostart", "fs"} \subseteq PluginNames(proc[p])
       /\ proc[p].events > 0 => proc[p].hookRuns = 1
       /\ proc[p].stage \in {"entered", "built", "plugins_ready", "ready"} =>
             proc[p].events = 0

C9_Witness ==
    \E p \in Procs :
       /\ proc[p].stage = "running"
       /\ proc[p].hookRuns = 1
       /\ proc[p].events > 0

\* C10: a process creates at most one application handle, and from its
\* creation until the process is terminated the handle is valid.
C10_OneHandle ==
    \A p \in Procs :
       /\ proc[p].handles <= 1
       /\ proc[p].handle = "valid" => proc[p].handles = 1
       /\ (proc[p].handles >= 1 /\ proc[p].terminated = "no") =>
             proc[p].handle = "valid"
       /\ proc[p].stage \in {"built", "plugins_ready", "ready", "running"} =>
             proc[p].handle = "valid"

C10_Witness ==
    \E p \in Procs :
       /\ proc[p].handles = 1
       /\ proc[p].handle = "valid"
       /\ proc[p].stage = "running"
       /\ proc[p].events > 0

====
